---- MODULE Spec2Model ----
(***************************************************************************)
(* AZ Media Transcript API (src/main.py).                                  *)
(*                                                                         *)
(* Strings the code inspects character by character (URLs, identifiers)    *)
(* are sequences of one-character strings; strings the code only builds    *)
(* by concatenation (transcripts, error messages) are TLA+ strings.        *)
(* The Optional[str] of an error message is a sequence of length at most   *)
(* one: None is <<>> and a present string s is <<s>>.  The Optional[str] of *)
(* an identifier is the identifier itself, or <<>> for None (and for the   *)
(* empty string, which `not video_id` treats alike).                       *)
(***************************************************************************)
EXTENDS Integers, Sequences, FiniteSets, TLC

VARIABLES
    url,          \* extract_video_id: the argument
    applied,      \* extract_video_id: has it returned
    vid,          \* extract_video_id: the value returned
    loop,         \* the request whose handler occupies the event loop, 0 if none
    pc,           \* per request: where its handler stands
    video_urls,   \* per request: req.video_urls
    item,         \* per request: number of list items the for loop has taken
    video_id,     \* per request: video_id of the item in progress
    results,      \* per request: the results list
    response,     \* per request: the returned list (<<>> before the return)
    calls,        \* per request: the provider invocations made, in order
    outcomes      \* per request: what happened to each item taken, in order

xvars == <<url, applied, vid>>
hvars == <<loop, pc, video_urls, item, video_id, results, response, calls, outcomes>>
vars == <<url, applied, vid, loop, pc, video_urls, item, video_id, results,
          response, calls, outcomes>>

----------------------------------------------------------------------------
(* Bounds *)

MaxFrags == 4
MaxUrls == 2
MaxRequests == 2

----------------------------------------------------------------------------
(* Characters and the two patterns of extract_video_id *)

Lower == {"a", "b", "c", "d", "e", "f", "g", "h", "i", "j", "k", "l", "m",
          "n", "o", "p", "q", "r", "s", "t", "u", "v", "w", "x", "y", "z"}
Upper == {"A", "B", "C", "D", "E", "F", "G", "H", "I", "J", "K", "L", "M",
          "N", "O", "P", "Q", "R", "S", "T", "U", "V", "W", "X", "Y", "Z"}
Digits == {"0", "1", "2", "3", "4", "5", "6", "7", "8", "9"}

AlnumOnly == Lower \cup Upper \cup Digits

\* the character class [a-zA-Z0-9_-]
IdChars == Lower \cup Upper \cup Digits \cup {"_", "-"}

\* the repetition count {11}
IdLen == 11

\* the literal text  youtu\.be/
ShortPrefix == <<"y", "o", "u", "t", "u", ".", "b", "e", "/">>

\* the literal text  v=
LongPrefix == <<"v", "=">>

\* Optional[str] of an identifier: None
NoId == <<>>

\* does  prefix([a-zA-Z0-9_-]{11})  match s starting at position p
MatchesAt(s, prefix, p) ==
    /\ p + Len(prefix) + IdLen - 1 <= Len(s)
    /\ \A k \in 1..Len(prefix) : s[p + k - 1] = prefix[k]
    /\ \A k \in 1..IdLen : s[p + Len(prefix) + k - 1] \in IdChars

\* re.search: the start of the leftmost match, 0 when there is none
Search(s, prefix) ==
    LET hits == {p \in 1..Len(s) : MatchesAt(s, prefix, p)}
    IN  IF hits = {} THEN 0 ELSE CHOOSE p \in hits : \A q \in hits : p <= q

\* match.group(1) of a match starting at p
Group1(s, prefix, p) == SubSeq(s, p + Len(prefix), p + Len(prefix) + IdLen - 1)

extract_video_id_long_first(s) ==
    LET long_match == Search(s, LongPrefix)
        short_match == Search(s, ShortPrefix)
    IN  IF long_match # 0 THEN Group1(s, LongPrefix, long_match)
        ELSE IF short_match # 0 THEN Group1(s, ShortPrefix, short_match)
        ELSE NoId

extract_video_id(s) ==
    LET short_match == Search(s, ShortPrefix)
        long_match == Search(s, LongPrefix)
    IN  IF short_match # 0 THEN Group1(s, ShortPrefix, short_match)
        ELSE IF long_match # 0 THEN Group1(s, LongPrefix, long_match)
        ELSE NoId

----------------------------------------------------------------------------
(* Input strings for extract_video_id: up to MaxFrags fragments in a row *)

NearPrefix == <<"y", "o", "u", "t", "u", "x", "b", "e", "/">>
TokA == <<"d", "Q", "w", "4", "w", "9", "W", "g", "X", "c", "Q">>
TokB == <<"a", "_", "b", "-", "C", "1", "d", "2", "E", "3", "f">>
TokTen == <<"0", "1", "2", "3", "4", "5", "6", "7", "8", "9">>
Amp == <<"&">>

Fragments == {ShortPrefix, LongPrefix, NearPrefix, TokA, TokB, TokTen, Amp}

RECURSIVE Strings(_)
Strings(n) ==
    IF n = 0 THEN {<<>>}
    ELSE LET shorter == Strings(n - 1)
         IN  shorter \cup {s \o f : s \in shorter, f \in Fragments}

----------------------------------------------------------------------------
(* Records, provider results and provider failures *)

\* Optional[str] of an error message
None == <<>>
Some(m) == <<m>>

\* the VideoTranscript model
VideoTranscript(u, t, s, e) ==
    [video_url |-> u, transcript |-> t, success |-> s, error |-> e]

ExtractErrorMsg == "Could not extract video ID from URL."

UnexpectedPrefix == "Unexpected error: "

\* languages=["en"]
Languages == <<"en">>

NamedFailuresTwo == {"TranscriptsDisabled", "NoTranscriptFound"}

\* the classes of the first except clause
NamedFailures == {"TranscriptsDisabled", "NoTranscriptFound", "VideoUnavailable"}

\* Failures raised while one item is processed.  All are subclasses of
\* Exception: the three named ones, another failure of the provider, a
\* failure of the network layer under it, and the KeyError of chunk["text"].
ExceptionClasses ==
    {"TranscriptsDisabled", "NoTranscriptFound", "VideoUnavailable",
     "TooManyRequests", "ConnectionError", "KeyError"}

Exc(c, m) == [cls |-> c, message |-> m]

\* str(e)
Str(e) == e.message

ProviderFailures ==
    { Exc("TranscriptsDisabled", "Subtitles are disabled for this video"),
      Exc("NoTranscriptFound", "No transcripts were found for the requested language codes"),
      Exc("VideoUnavailable", "The video is no longer available"),
      Exc("TooManyRequests", "YouTube is receiving too many requests from this IP"),
      Exc("ConnectionError", "") }

\* chunk["text"] on a chunk without that key
MissingText == Exc("KeyError", "'text'")

Chunk(t) == [text |-> t, start |-> 0, duration |-> 1]
ChunkNoText == [start |-> 0, duration |-> 1]

\* What get_transcript may return: a list of chunks, here also one whose
\* second chunk carries no text.
ProviderReturns ==
    { <<>>,
      <<Chunk("Hello")>>,
      <<Chunk("Hello"), Chunk("world")>>,
      <<Chunk("Hello"), ChunkNoText>> }

HasText(c) == "text" \in DOMAIN c

RECURSIVE JoinTrailing(_, _)
JoinTrailing(sep, ts) ==
    IF ts = <<>> THEN "" ELSE Head(ts) \o sep \o JoinTrailing(sep, Tail(ts))

\* sep.join(ts)
RECURSIVE Join(_, _)
Join(sep, ts) ==
    IF ts = <<>> THEN ""
    ELSE IF Len(ts) = 1 THEN Head(ts)
    ELSE Head(ts) \o sep \o Join(sep, Tail(ts))

\* chunk["text"] for chunk in transcript_data
Texts(cs) == [k \in 1..Len(cs) |-> cs[k].text]

CaughtByNone(c) == FALSE

\* except Exception
CaughtByGeneric(c) == c \in ExceptionClasses

\* the record an except clause appends
ExceptionRecord(u, e) ==
    IF e.cls \in NamedFailures
    THEN VideoTranscript(u, "", FALSE, Some(Str(e)))
    ELSE VideoTranscript(u, "", FALSE, Some(UnexpectedPrefix \o Str(e)))

AddResultFront(rs, rec) == <<rec>> \o rs

\* results.append(rec)
AddResult(rs, rec) == Append(rs, rec)

AfterRaiseSwallow(rs, u, e) == rs

\* results once an except clause has run
AfterRaise(rs, u, e) == AddResult(rs, ExceptionRecord(u, e))

NoVideoIdNever(v) == FALSE

\* not video_id
NoVideoId(v) == v = NoId

InvokeProviderCached(log, k, v) ==
    IF \E j \in 1..Len(log) : log[j].video_id = v THEN log
    ELSE Append(log, [pos |-> k, video_id |-> v, languages |-> Languages])

\* YouTubeTranscriptApi.get_transcript(video_id, languages=["en"]) is called
\* for the item at position k
InvokeProvider(log, k, v) ==
    Append(log, [pos |-> k, video_id |-> v, languages |-> Languages])

\* what happened to an item: no identifier, chunks returned, failure raised
Outcome(kind, cs, e) == [kind |-> kind, chunks |-> cs, exc |-> e]
NoExc == Exc("", "")

----------------------------------------------------------------------------
(* State of the request handlers before any request *)

Requests == 1..MaxRequests

HttpsHost == <<"h", "t", "t", "p", "s", ":", "/", "/">>
WatchPath == <<"w", "w", "w", ".", "y", "o", "u", "t", "u", "b", "e", ".",
               "c", "o", "m", "/", "w", "a", "t", "c", "h", "?">>
UrlShort == HttpsHost \o ShortPrefix \o TokA
UrlWatch == HttpsHost \o WatchPath \o LongPrefix \o TokB
UrlExample == <<"h", "t", "t", "p", "s", ":", "/", "/", "e", "x", "a", "m", "p",
                "l", "e", ".", "c", "o", "m", "/", "v", "i", "d", "e", "o">>

RequestUrls == {UrlShort, UrlWatch, UrlExample}

RECURSIVE UrlLists(_)
UrlLists(n) ==
    IF n = 0 THEN {<<>>}
    ELSE LET shorter == UrlLists(n - 1)
         IN  shorter \cup {Append(l, u) : l \in shorter, u \in RequestUrls}

HandlerInit ==
    /\ loop = 0
    /\ pc = [r \in Requests |-> "idle"]
    /\ video_urls = [r \in Requests |-> <<>>]
    /\ item = [r \in Requests |-> 0]
    /\ video_id = [r \in Requests |-> NoId]
    /\ results = [r \in Requests |-> <<>>]
    /\ response = [r \in Requests |-> <<>>]
    /\ calls = [r \in Requests |-> <<>>]
    /\ outcomes = [r \in Requests |-> <<>>]

----------------------------------------------------------------------------
(* extract_video_id applied to every bounded input *)

ExtractInit ==
    /\ url \in Strings(MaxFrags)
    /\ applied = FALSE
    /\ vid = NoId
    /\ HandlerInit

ApplyExtract ==
    /\ ~applied
    /\ applied' = TRUE
    /\ vid' = extract_video_id(url)
    /\ UNCHANGED <<url, hvars>>

ExtractNext == ApplyExtract

SpecExtract == ExtractInit /\ [][ExtractNext]_vars

----------------------------------------------------------------------------
(* POST /transcripts.  get_transcripts is a coroutine with no await in it,  *)
(* so from its first statement to its return it is the one thing the event *)
(* loop of the serving process runs.                                       *)

\* a client sends a request; it waits for the event loop
Arrive(r) ==
    /\ pc[r] = "idle"
    /\ pc' = [pc EXCEPT ![r] = "queued"]
    /\ UNCHANGED <<loop, video_urls, item, video_id, results, response, calls,
                   outcomes, xvars>>

\* the event loop takes the request up: the body is parsed into req and the
\* handler starts with results = []
Accept(r, urls) ==
    /\ pc[r] = "queued"
    /\ loop = 0
    /\ loop' = r
    /\ pc' = [pc EXCEPT ![r] = "loop"]
    /\ video_urls' = [video_urls EXCEPT ![r] = urls]
    /\ item' = [item EXCEPT ![r] = 0]
    /\ video_id' = [video_id EXCEPT ![r] = NoId]
    /\ results' = [results EXCEPT ![r] = <<>>]
    /\ response' = [response EXCEPT ![r] = <<>>]
    /\ calls' = [calls EXCEPT ![r] = <<>>]
    /\ outcomes' = [outcomes EXCEPT ![r] = <<>>]
    /\ UNCHANGED xvars

\* the for loop takes the next url: extraction, then either the failure
\* record and continue, or the call of the provider
NextItem(r) ==
    /\ pc[r] = "loop"
    /\ loop = r
    /\ item[r] < Len(video_urls[r])
    /\ LET k == item[r] + 1
           u == video_urls[r][k]
           v == extract_video_id(u)
       IN  /\ item' = [item EXCEPT ![r] = k]
           /\ video_id' = [video_id EXCEPT ![r] = v]
           /\ IF NoVideoId(v)
              THEN /\ results' = [results EXCEPT ![r] =
                         AddResult(@, VideoTranscript(u, "", FALSE, Some(ExtractErrorMsg)))]
                   /\ outcomes' = [outcomes EXCEPT ![r] =
                         Append(@, Outcome("noid", <<>>, NoExc))]
                   /\ UNCHANGED <<pc, calls>>
              ELSE /\ calls' = [calls EXCEPT ![r] = InvokeProvider(@, k, v)]
                   /\ pc' = [pc EXCEPT ![r] = "calling"]
                   /\ UNCHANGED <<results, outcomes>>
    /\ UNCHANGED <<loop, video_urls, response, xvars>>

\* an exception e is raised inside the try block of the item in progress
Raise(r, e) ==
    LET u == video_urls[r][item[r]]
    IN  IF e.cls \in NamedFailures \/ CaughtByGeneric(e.cls)
        THEN /\ results' = [results EXCEPT ![r] = AfterRaise(@, u, e)]
             /\ pc' = [pc EXCEPT ![r] = "loop"]
             /\ UNCHANGED loop
        ELSE /\ pc' = [pc EXCEPT ![r] = "raised"]
             /\ loop' = 0
             /\ UNCHANGED results

\* the provider returns chunks: join, success record
ProviderReturn(r, cs) ==
    /\ pc[r] = "calling"
    /\ loop = r
    /\ outcomes' = [outcomes EXCEPT ![r] = Append(@, Outcome("ok", cs, NoExc))]
    /\ IF \A k \in 1..Len(cs) : HasText(cs[k])
       THEN /\ results' = [results EXCEPT ![r] =
                  AddResult(@, VideoTranscript(video_urls[r][item[r]],
                                               Join(" ", Texts(cs)), TRUE, None))]
            /\ pc' = [pc EXCEPT ![r] = "loop"]
            /\ UNCHANGED loop
       ELSE Raise(r, MissingText)
    /\ UNCHANGED <<video_urls, item, video_id, response, calls, xvars>>

\* the provider raises
ProviderRaise(r, e) ==
    /\ pc[r] = "calling"
    /\ loop = r
    /\ outcomes' = [outcomes EXCEPT ![r] = Append(@, Outcome("raise", <<>>, e))]
    /\ Raise(r, e)
    /\ UNCHANGED <<video_urls, item, video_id, response, calls, xvars>>

\* the for loop is exhausted: return results
Return(r) ==
    /\ pc[r] = "loop"
    /\ loop = r
    /\ item[r] = Len(video_urls[r])
    /\ response' = [response EXCEPT ![r] = results[r]]
    /\ pc' = [pc EXCEPT ![r] = "done"]
    /\ UNCHANGED <<loop, video_urls, item, video_id, results, calls, outcomes, xvars>>

\* the coroutine has ended and the response is sent: the event loop is free
\* again and nothing of the request is kept
Deliver(r) ==
    /\ pc[r] = "done"
    /\ loop = r
    /\ loop' = 0
    /\ pc' = [pc EXCEPT ![r] = "idle"]
    /\ video_urls' = [video_urls EXCEPT ![r] = <<>>]
    /\ item' = [item EXCEPT ![r] = 0]
    /\ video_id' = [video_id EXCEPT ![r] = NoId]
    /\ results' = [results EXCEPT ![r] = <<>>]
    /\ response' = [response EXCEPT ![r] = <<>>]
    /\ calls' = [calls EXCEPT ![r] = <<>>]
    /\ outcomes' = [outcomes EXCEPT ![r] = <<>>]
    /\ UNCHANGED xvars

Init ==
    /\ url = <<>>
    /\ applied = FALSE
    /\ vid = NoId
    /\ HandlerInit

Next ==
    \/ \E r \in Requests : Arrive(r)
    \/ \E r \in Requests : \E urls \in UrlLists(MaxUrls) : Accept(r, urls)
    \/ \E r \in Requests : NextItem(r)
    \/ \E r \in Requests : \E cs \in ProviderReturns : ProviderReturn(r, cs)
    \/ \E r \in Requests : \E e \in ProviderFailures : ProviderRaise(r, e)
    \/ \E r \in Requests : Return(r)
    \/ \E r \in Requests : Deliver(r)

Spec == Init /\ [][Next]_vars

----------------------------------------------------------------------------
(* The properties, stated without the operators of the code where they are  *)
(* about what those operators compute.                                     *)

TokenChars == Lower \cup Upper \cup Digits \cup {"_", "-"}

\* the 11 characters of s from position q on are all token characters
TokenAt(s, q) ==
    /\ q + 10 <= Len(s)
    /\ \A k \in 0..10 : s[q + k] \in TokenChars

LiteralAt(s, lit, p) ==
    /\ p + Len(lit) - 1 <= Len(s)
    /\ SubSeq(s, p, p + Len(lit) - 1) = lit

\* s holds  youtu.be/  at p, immediately followed by an 11-character token
ShortLinkAt(s, p) ==
    /\ LiteralAt(s, <<"y", "o", "u", "t", "u", ".", "b", "e", "/">>, p)
    /\ TokenAt(s, p + 9)

\* s holds  v=  at p, immediately followed by an 11-character token
WatchAt(s, p) ==
    /\ LiteralAt(s, <<"v", "=">>, p)
    /\ TokenAt(s, p + 2)

ShortLinks(s) == {p \in 1..Len(s) : ShortLinkAt(s, p)}
Watches(s) == {p \in 1..Len(s) : WatchAt(s, p)}
First(S) == CHOOSE p \in S : \A q \in S : p <= q

\* C6: whenever the string holds youtu.be/ immediately followed by an
\* 11-character token, extract_video_id returns the token of that short link
\* (of the leftmost one when there are several), whether or not a v= pattern
\* with another token stands before or after it.
ShortLinkWins ==
    (applied /\ ShortLinks(url) # {}) =>
        vid = SubSeq(url, First(ShortLinks(url)) + 9, First(ShortLinks(url)) + 19)

\* a short link with a v= pattern of a different token in front of it
ShortLinkWinsWitness ==
    /\ applied
    /\ \E p \in ShortLinks(url) : \E q \in Watches(url) :
          /\ q < p
          /\ SubSeq(url, q + 2, q + 12) # SubSeq(url, p + 9, p + 19)
          /\ vid = SubSeq(url, p + 9, p + 19)

\* C7: with no youtu.be/ match, a string holding v= followed by an
\* 11-character token yields that token (of the leftmost v= match), and a
\* string in which neither pattern matches yields not-found.
WatchOrNotFound ==
    (applied /\ ShortLinks(url) = {}) =>
        IF Watches(url) # {}
        THEN vid = SubSeq(url, First(Watches(url)) + 2, First(Watches(url)) + 12)
        ELSE vid = <<>>

\* a v= token with underscore and hyphen is returned although the string also
\* holds the text youtu.be/ (followed by too short a token)
WatchOrNotFoundWitness ==
    /\ applied
    /\ ShortLinks(url) = {}
    /\ \E p \in 1..Len(url) : LiteralAt(url, ShortPrefix, p)
    /\ \E q \in Watches(url) : vid = TokB

\* the record the item with url u and outcome o is to have
ExpectedRecord(u, o) ==
    IF o.kind = "noid"
    THEN [video_url |-> u, transcript |-> "", success |-> FALSE,
          error |-> <<"Could not extract video ID from URL.">>]
    ELSE IF o.kind = "raise"
    THEN [video_url |-> u, transcript |-> "", success |-> FALSE,
          error |-> IF o.exc.cls \in {"TranscriptsDisabled", "NoTranscriptFound",
                                      "VideoUnavailable"}
                    THEN <<o.exc.message>>
                    ELSE <<"Unexpected error: " \o o.exc.message>>]
    ELSE IF o.chunks = <<>>
    THEN [video_url |-> u, transcript |-> "", success |-> TRUE, error |-> <<>>]
    ELSE IF o.chunks = <<Chunk("Hello")>>
    THEN [video_url |-> u, transcript |-> "Hello", success |-> TRUE, error |-> <<>>]
    ELSE IF o.chunks = <<Chunk("Hello"), Chunk("world")>>
    THEN [video_url |-> u, transcript |-> "Hello world", success |-> TRUE,
          error |-> <<>>]
    ELSE [video_url |-> u, transcript |-> "", success |-> FALSE,
          error |-> <<"Unexpected error: 'text'">>]

\* C1: the returned list has as many records as video_urls has entries and
\* the record at position k echoes the k-th input string verbatim, for every
\* combination of outcomes; an empty list gives an empty list.
ResponseAligned ==
    \A r \in Requests :
        pc[r] = "done" =>
            /\ Len(response[r]) = Len(video_urls[r])
            /\ \A k \in 1..Len(response[r]) :
                  response[r][k].video_url = video_urls[r][k]
            /\ (video_urls[r] = <<>> => response[r] = <<>>)

\* a returned list of two records, the first for a failed extraction, the
\* second for a failed provider call
ResponseAlignedWitness ==
    \E r \in Requests :
        /\ pc[r] = "done"
        /\ Len(video_urls[r]) = 2
        /\ video_urls[r][1] # video_urls[r][2]
        /\ Len(response[r]) = 2
        /\ outcomes[r][1].kind = "noid"
        /\ outcomes[r][2].kind = "raise"

\* C2: no failure leaves the handler; a handler that has returned has
\* processed every URL; and the record at every position is the one its own
\* URL and its own outcome determine, whatever happened at other positions.
ErrorsContained ==
    \A r \in Requests :
        /\ pc[r] # "raised"
        /\ Len(outcomes[r]) = Len(results[r])
        /\ pc[r] = "done" => Len(outcomes[r]) = Len(video_urls[r])
        /\ \A k \in 1..Len(results[r]) :
              k <= Len(outcomes[r]) =>
                  results[r][k] = ExpectedRecord(video_urls[r][k], outcomes[r][k])

\* an unnamed failure at position 1, then a success at position 2, returned
ErrorsContainedWitness ==
    \E r \in Requests :
        /\ pc[r] = "done"
        /\ Len(response[r]) = 2
        /\ outcomes[r][1].kind = "raise"
        /\ outcomes[r][1].exc.cls = "ConnectionError"
        /\ response[r][2].success
        /\ response[r][2].transcript = "Hello world"

\* what extract_video_id returns for each URL a request may list
ExtractedId == [u \in RequestUrls |-> extract_video_id(u)]

\* C3: an item whose URL yields no identifier has exactly the record
\* success=false, error="Could not extract video ID from URL.", transcript="",
\* and the provider is never invoked for it.
ExtractionFailureRecord ==
    \A r \in Requests : \A k \in 1..item[r] :
        ExtractedId[video_urls[r][k]] = <<>> =>
            /\ \A j \in 1..Len(calls[r]) : calls[r][j].pos # k
            /\ k <= Len(results[r])
            /\ results[r][k] =
                  [video_url |-> video_urls[r][k], transcript |-> "",
                   success |-> FALSE,
                   error |-> <<"Could not extract video ID from URL.">>]

\* the second item has no identifier and its record is there, while the
\* provider was invoked for the first item only
ExtractionFailureRecordWitness ==
    \E r \in Requests :
        /\ item[r] = 2
        /\ ExtractedId[video_urls[r][2]] = <<>>
        /\ Len(results[r]) = 2
        /\ ~results[r][2].success
        /\ Len(calls[r]) = 1
        /\ calls[r][1].pos = 1

\* C4: the provider is invoked exactly once for each position taken whose
\* URL yields an identifier and never for another position, whatever the call
\* does; the same URL at two positions is looked up twice.
ProviderOncePerPosition ==
    \A r \in Requests :
        /\ \A j \in 1..Len(calls[r]) :
              /\ calls[r][j].pos \in 1..item[r]
              /\ calls[r][j].video_id = ExtractedId[video_urls[r][calls[r][j].pos]]
        /\ \A k \in 1..Len(video_urls[r]) :
              Cardinality({j \in 1..Len(calls[r]) : calls[r][j].pos = k})
                  = IF k <= item[r] /\ ExtractedId[video_urls[r][k]] # <<>>
                    THEN 1 ELSE 0

\* the same URL twice: the first lookup failed and was not repeated, the
\* second lookup was made all the same and succeeded
ProviderOncePerPositionWitness ==
    \E r \in Requests :
        /\ pc[r] = "done"
        /\ Len(video_urls[r]) = 2
        /\ video_urls[r][1] = video_urls[r][2]
        /\ Len(calls[r]) = 2
        /\ calls[r][1].video_id = calls[r][2].video_id
        /\ ~response[r][1].success
        /\ response[r][2].success

\* C5: while one request is inside the provider call, the serving process
\* can take up another request that is waiting.
AcceptsWhileCalling ==
    \A r \in Requests : \A q \in Requests :
        (pc[r] = "calling" /\ pc[q] = "queued") =>
            ENABLED (\E urls \in UrlLists(MaxUrls) : Accept(q, urls))

\* the texts of the chunks, one space between consecutive ones
RECURSIVE SpacedText(_)
SpacedText(cs) ==
    IF Len(cs) = 0 THEN ""
    ELSE IF Len(cs) = 1 THEN cs[1].text
    ELSE SpacedText(SubSeq(cs, 1, Len(cs) - 1)) \o " " \o cs[Len(cs)].text

\* C8: an item whose provider call returns chunks has success=true,
\* error=null and as transcript the chunks' texts in order with exactly one
\* space between consecutive ones ("Hello", "world" give "Hello world"); every
\* lookup is made for the one preferred language.
SuccessRecordJoined ==
    \A r \in Requests :
        /\ \A j \in 1..Len(calls[r]) : calls[r][j].languages = <<"en">>
        /\ \A k \in 1..Len(results[r]) :
              (/\ k <= Len(outcomes[r])
               /\ outcomes[r][k].kind = "ok"
               /\ \A c \in 1..Len(outcomes[r][k].chunks) :
                     "text" \in DOMAIN outcomes[r][k].chunks[c]) =>
                  /\ results[r][k] =
                        [video_url |-> video_urls[r][k],
                         transcript |-> SpacedText(outcomes[r][k].chunks),
                         success |-> TRUE, error |-> <<>>]
                  /\ (outcomes[r][k].chunks = <<Chunk("Hello"), Chunk("world")>>
                        => results[r][k].transcript = "Hello world")

\* the chunks "Hello", "world" were returned and the record reads "Hello world"
SuccessRecordJoinedWitness ==
    \E r \in Requests : \E k \in 1..Len(results[r]) :
        /\ outcomes[r][k].chunks = <<Chunk("Hello"), Chunk("world")>>
        /\ results[r][k].success
        /\ results[r][k].transcript = "Hello world"
        /\ results[r][k].error = <<>>

\* C9: an item whose provider call fails has success=false, transcript="" and
\* as error the failure's string form for the three named categories and
\* "Unexpected error: " followed by it for any other; in every record error is
\* non-null exactly when success is false, and transcript is empty then.
FailureRecordClassified ==
    \A r \in Requests : \A k \in 1..Len(results[r]) :
        /\ (k <= Len(outcomes[r]) /\ outcomes[r][k].kind = "raise") =>
              results[r][k] =
                  [video_url |-> video_urls[r][k], transcript |-> "",
                   success |-> FALSE,
                   error |-> IF outcomes[r][k].exc.cls \in
                                   {"TranscriptsDisabled", "NoTranscriptFound",
                                    "VideoUnavailable"}
                             THEN <<outcomes[r][k].exc.message>>
                             ELSE <<"Unexpected error: " \o outcomes[r][k].exc.message>>]
        /\ (results[r][k].error # <<>>) <=> ~results[r][k].success
        /\ ~results[r][k].success => results[r][k].transcript = ""

\* a named failure and an unnamed one with an empty string form, side by side
FailureRecordClassifiedWitness ==
    \E r \in Requests :
        /\ Len(results[r]) = 2
        /\ outcomes[r][1].exc.cls = "VideoUnavailable"
        /\ results[r][1].error = <<"The video is no longer available">>
        /\ outcomes[r][2].exc.cls = "ConnectionError"
        /\ results[r][2].error = <<"Unexpected error: ">>

\* C10: items are processed one at a time in input order: while the provider
\* call for position j runs, the records of all positions before j and no
\* others are in results; at most one provider call of a request is in flight;
\* after k items the results are the records of the first k URLs, in order.
SequentialInOrder ==
    \A r \in Requests :
        /\ Len(results[r]) = IF pc[r] = "calling" THEN item[r] - 1 ELSE item[r]
        /\ Cardinality({j \in 1..Len(calls[r]) : calls[r][j].pos > Len(results[r])})
              = IF pc[r] = "calling" THEN 1 ELSE 0
        /\ \A j \in 1..Len(calls[r]) : \A h \in 1..Len(calls[r]) :
              j < h => calls[r][j].pos < calls[r][h].pos
        /\ Len(outcomes[r]) = Len(results[r])
        /\ \A k \in 1..Len(results[r]) :
              k <= Len(outcomes[r]) =>
                  results[r][k] = ExpectedRecord(video_urls[r][k], outcomes[r][k])

\* the provider call for the second item runs with the first record appended
SequentialInOrderWitness ==
    \E r \in Requests :
        /\ pc[r] = "calling"
        /\ item[r] = 2
        /\ Len(results[r]) = 1
        /\ Len(calls[r]) = 2
        /\ video_urls[r][1] # video_urls[r][2]

====
